---------------------------- MODULE Spec2Model ----------------------------
(***************************************************************************)
(* A model of selma's HTML sanitizer (ext/selma/src/sanitizer.rs): the     *)
(* policy store with its setters, the element decision engine and the      *)
(* attribute sanitization engine that run on every streamed element.       *)
(*                                                                         *)
(* Text is a sequence of characters (one-character strings).  "U+00E9"    *)
(* stands for the one character e-acute, which occupies two bytes: that    *)
(* matters wherever the code mixes byte offsets and character indices.     *)
(***************************************************************************)
EXTENDS Integers, Sequences, FiniteSets, TLC

VARIABLES
    flags,               \* Sanitizer.flags: [u8; TAG_COUNT], indexed by tag
    allowed_attrs,       \* Sanitizer.allowed_attrs: Vec<String>
    allowed_classes,     \* Sanitizer.allowed_classes: Vec<String>
    element_sanitizers,  \* Sanitizer.element_sanitizers: tag name -> ElementSanitizer
    allow_comments,      \* Sanitizer.allow_comments
    allow_doctype,       \* Sanitizer.allow_doctype
    pc,                  \* where the element handler stands
    el,                  \* the element handle the handler mutates
    attribute_map,       \* sanitize_attributes' snapshot of the attributes
    todo,                \* keys of attribute_map the loop has not visited yet
    prev,                \* the attributes a first pass wrote, when its output is fed back
    node,                \* the last comment or doctype event and what became of it
    call                 \* the last direct call of a validator and what it returned

vars == <<flags, allowed_attrs, allowed_classes, element_sanitizers,
          allow_comments, allow_doctype, pc, el, attribute_map, todo,
          prev, node, call>>

config_vars == <<flags, allowed_attrs, allowed_classes, element_sanitizers,
                 allow_comments, allow_doctype>>

pass_vars == <<pc, el, attribute_map, todo, prev>>

---------------------------------------------------------------------------
(* Bounds of the model.                                                    *)

\* longest Vec<String> an allow-list grows to
MaxVec == 2
\* most attributes on one element
MaxAttrs == 2
\* most atoms a generated attribute value is made of
MaxAtoms == 2

---------------------------------------------------------------------------
(* u8 arithmetic.                                                          *)

RECURSIVE BitAnd(_, _)
BitAnd(x, y) ==
    IF x = 0 \/ y = 0 THEN 0
    ELSE (x % 2) * (y % 2) + 2 * BitAnd(x \div 2, y \div 2)

BitOr(x, y) == x + y - BitAnd(x, y)

\* !flag on a u8
BitNot(x) == 255 - x

SELMA_SANITIZER_ALLOW == 1
SELMA_SANITIZER_REMOVE_CONTENTS == 2
SELMA_SANITIZER_WRAP_WHITESPACE == 4

---------------------------------------------------------------------------
(* Text.                                                                   *)

Contains(vec, x) == \E i \in 1..Len(vec) : vec[i] = x

RECURSIVE Flatten(_)
Flatten(ss) == IF ss = <<>> THEN <<>> ELSE Head(ss) \o Flatten(Tail(ss))

\* every sequence over S of length at most n
SeqsUpTo(S, n) == UNION {[1..k -> S] : k \in 0..n}

\* UTF-8 width of a character
ByteLen(c) == IF c = "U+00E9" THEN 2 ELSE 1

RECURSIVE ByteLenOf(_)
ByteLenOf(s) == IF s = <<>> THEN 0 ELSE ByteLen(Head(s)) + ByteLenOf(Tail(s))

IsWhitespace(c) == c = " "

\* str::trim_start
RECURSIVE trim_start(_)
trim_start(s) ==
    IF s # <<>> /\ IsWhitespace(Head(s)) THEN trim_start(Tail(s)) ELSE s

to_lowercase_char(c) ==
    CASE c = "H" -> "h"
      [] c = "J" -> "j"
      [] OTHER -> c

\* str::to_lowercase
to_lowercase(s) == [i \in 1..Len(s) |-> to_lowercase_char(s[i])]

StartsWith(s, p) == Len(s) >= Len(p) /\ SubSeq(s, 1, Len(p)) = p

Drop(s, n) == SubSeq(s, n + 1, Len(s))

(* escapist::unescape_html, on the entities the inputs use: a reference is  *)
(* replaced by its character, everything else is copied.                   *)
Entities ==
    { [text |-> <<"&", "a", "m", "p", ";">>, char |-> "&"],
      [text |-> <<"&", "l", "t", ";">>,      char |-> "<"],
      [text |-> <<"&", "#", "3", "2", ";">>, char |-> " "],
      [text |-> <<"&", "#", "1", "1", "7", ";">>, char |-> "u"] }

RECURSIVE unescape_html(_)
unescape_html(s) ==
    IF s = <<>> THEN <<>>
    ELSE IF \E e \in Entities : StartsWith(s, e.text)
         THEN LET e == CHOOSE x \in Entities : StartsWith(s, x.text)
              IN  <<e.char>> \o unescape_html(Drop(s, Len(e.text)))
         ELSE <<Head(s)>> \o unescape_html(Tail(s))

\* escapist::escape_html: the five markup characters become references
escape_html_char(c) ==
    CASE c = "&"  -> <<"&", "a", "m", "p", ";">>
      [] c = "<"  -> <<"&", "l", "t", ";">>
      [] c = ">"  -> <<"&", "g", "t", ";">>
      [] c = "\"" -> <<"&", "q", "u", "o", "t", ";">>
      [] c = "'"  -> <<"&", "#", "3", "9", ";">>
      [] OTHER    -> <<c>>

escape_html(s) == Flatten([i \in 1..Len(s) |-> escape_html_char(s[i])])

\* escapist::escape_href: URL-safe characters are copied, "&" and "'" become
\* references, every other byte is percent-encoded
escape_href_char(c) ==
    CASE c = "&"  -> <<"&", "a", "m", "p", ";">>
      [] c = "'"  -> <<"&", "#", "x", "2", "7", ";">>
      [] c = " "  -> <<"%", "2", "0">>
      [] c = "<"  -> <<"%", "3", "C">>
      [] c = ">"  -> <<"%", "3", "E">>
      [] c = "\"" -> <<"%", "2", "2">>
      [] c = "U+00E9" -> <<"%", "C", "3", "%", "A", "9">>
      [] OTHER    -> <<c>>

escape_href(s) == Flatten([i \in 1..Len(s) |-> escape_href_char(s[i])])

\* str::split_whitespace
RECURSIVE split_whitespace(_)
split_whitespace(s) ==
    LET t == trim_start(s)
        WordLen[i \in 0..Len(t)] ==
            IF i = Len(t) \/ IsWhitespace(t[i + 1]) THEN i ELSE WordLen[i + 1]
    IN  IF t = <<>> THEN <<>>
        ELSE <<SubSeq(t, 1, WordLen[0])>> \o split_whitespace(Drop(t, WordLen[0]))

\* [String]::join(" ")
RECURSIVE join(_)
join(words) ==
    IF words = <<>> THEN <<>>
    ELSE IF Len(words) = 1 THEN words[1]
    ELSE words[1] \o <<" ">> \o join(Tail(words))

---------------------------------------------------------------------------
(* The tag registry (crate::tags::Tag): the tags of the model and their    *)
(* static metadata.                                                        *)

Tags == {"a", "script", "iframe", "meta"}

self_closing(tag) == tag = "meta"

has_text_content(tag) == tag = "script"

is_iframe(tag) == tag = "iframe"

is_meta(tag) == tag = "meta"

---------------------------------------------------------------------------
(* Sanitizer::new.                                                         *)

\* a HashMap with no entry
EmptyMap == [k \in {} |-> <<>>]

NewElementSanitizer ==
    [allowed_attrs |-> <<>>, required_attrs |-> <<>>, allowed_classes |-> <<>>,
     protocol_sanitizers |-> EmptyMap]

\* no element event is being handled
NoElement ==
    [tag |-> "none", attrs |-> EmptyMap, removed |-> FALSE, content |-> "kept",
     end_removed |-> FALSE, before |-> 0, after |-> 0, end_handler |-> FALSE,
     end_seen |-> FALSE]

NoNode == [kind |-> "none", removed |-> FALSE]

NoCall == [fn |-> "none", protocols |-> <<>>, val |-> <<>>, ret |-> "none"]

new ==
    /\ flags = [t \in Tags |-> 0]
    /\ allowed_attrs = <<>>
    /\ allowed_classes = <<>>
    /\ element_sanitizers = [t \in Tags |-> NewElementSanitizer]
    /\ allow_comments = FALSE
    /\ allow_doctype = FALSE

Init ==
    /\ new
    /\ pc = "idle"
    /\ el = NoElement
    /\ attribute_map = EmptyMap
    /\ todo = {}
    /\ prev = [fed |-> FALSE, attrs |-> EmptyMap]
    /\ node = NoNode
    /\ call = NoCall

---------------------------------------------------------------------------
(* The setters.  They run between events, never inside a handler.          *)

Idle == pc = "idle"

\* variant: set = false flips the bits of flag
set_flag_bits_flip(old, flag, set) ==
    IF set THEN BitOr(old, flag) ELSE BitOr(old, flag) - BitAnd(old, flag)

set_flag_bits(old, flag, set) ==
    IF set THEN BitOr(old, flag) ELSE BitAnd(old, BitNot(flag))

set_flag(element, flag, set) ==
    /\ Idle
    /\ flags' = [flags EXCEPT ![element] = set_flag_bits(flags[element], flag, set)]
    /\ UNCHANGED <<allowed_attrs, allowed_classes, element_sanitizers,
                   allow_comments, allow_doctype, pass_vars, node, call>>

set_all_flags_bits(old, flag, set) ==
    IF set THEN BitOr(old, flag) ELSE BitAnd(old, flag)

set_all_flags(flag, set) ==
    /\ Idle
    /\ flags' = [t \in Tags |-> set_all_flags_bits(flags[t], flag, set)]
    /\ UNCHANGED <<allowed_attrs, allowed_classes, element_sanitizers,
                   allow_comments, allow_doctype, pass_vars, node, call>>

set_allow_comments(allow) ==
    /\ Idle
    /\ allow_comments' = allow
    /\ UNCHANGED <<flags, allowed_attrs, allowed_classes, element_sanitizers,
                   allow_doctype, pass_vars, node, call>>

set_allow_doctype(allow) ==
    /\ Idle
    /\ allow_doctype' = allow
    /\ UNCHANGED <<flags, allowed_attrs, allowed_classes, element_sanitizers,
                   allow_comments, pass_vars, node, call>>

\* Vec::swap_remove: the last entry takes the place of the removed one
swap_remove(vec, i) ==
    IF i = Len(vec) THEN SubSeq(vec, 1, Len(vec) - 1)
    ELSE [k \in 1..(Len(vec) - 1) |-> IF k = i THEN vec[Len(vec)] ELSE vec[k]]

\* Iterator::position: the first index holding x
position(vec, x) == CHOOSE i \in 1..Len(vec) : vec[i] = x /\ \A k \in 1..(i - 1) : vec[k] # x

set_allowed(set, attr_name, allow) ==
    IF allow THEN Append(set, attr_name)
    ELSE IF Contains(set, attr_name) THEN swap_remove(set, position(set, attr_name))
    ELSE set

\* variant: the list of a tag is toggled like the global one
set_allowed_attribute_toggle(eln, attr_name, allow) ==
    /\ Idle
    /\ IF eln = "all"
       THEN /\ Len(allowed_attrs) < MaxVec \/ ~allow
            /\ allowed_attrs' = set_allowed(allowed_attrs, attr_name, allow)
            /\ UNCHANGED element_sanitizers
       ELSE /\ Len(element_sanitizers[eln].allowed_attrs) < MaxVec \/ ~allow
            /\ element_sanitizers' =
                   [element_sanitizers EXCEPT
                       ![eln].allowed_attrs = set_allowed(@, attr_name, allow)]
            /\ UNCHANGED allowed_attrs
    /\ UNCHANGED <<flags, allowed_classes, allow_comments, allow_doctype,
                   pass_vars, node, call>>

set_allowed_attribute(eln, attr_name, allow) ==
    /\ Idle
    /\ IF eln = "all"
       THEN /\ Len(allowed_attrs) < MaxVec \/ ~allow
            /\ allowed_attrs' = set_allowed(allowed_attrs, attr_name, allow)
            /\ UNCHANGED element_sanitizers
       ELSE /\ Len(element_sanitizers[eln].allowed_attrs) < MaxVec
            /\ element_sanitizers' =
                   [element_sanitizers EXCEPT ![eln].allowed_attrs = Append(@, attr_name)]
            /\ UNCHANGED allowed_attrs
    /\ UNCHANGED <<flags, allowed_classes, allow_comments, allow_doctype,
                   pass_vars, node, call>>

set_allowed_class(element_name, class_name, allow) ==
    /\ Idle
    /\ IF element_name = "all"
       THEN /\ Len(allowed_classes) < MaxVec \/ ~allow
            /\ allowed_classes' = set_allowed(allowed_classes, class_name, allow)
            /\ UNCHANGED element_sanitizers
       ELSE /\ Len(element_sanitizers[element_name].allowed_classes) < MaxVec \/ ~allow
            /\ element_sanitizers' =
                   [element_sanitizers EXCEPT
                       ![element_name].allowed_classes = set_allowed(@, class_name, allow)]
            /\ UNCHANGED allowed_classes
    /\ UNCHANGED <<flags, allowed_attrs, allow_comments, allow_doctype,
                   pass_vars, node, call>>

\* what one entry of allow_list appends: a String itself, :relative the two
\* sentinel tokens, anything else nothing
Relative == <<":relative">>

protocol_tokens(entry) ==
    IF entry = Relative THEN << <<"#">>, <<"/">> >> ELSE <<entry>>

\* variant: the list of a call replaces the list there was
push_protocols_replace(protocol_sanitizers, attr_name, allow_list) ==
    (attr_name :> Flatten([i \in 1..Len(allow_list) |-> protocol_tokens(allow_list[i])]))
        @@ protocol_sanitizers

RECURSIVE push_protocols(_, _, _)
push_protocols(protocol_sanitizers, attr_name, allow_list) ==
    IF allow_list = <<>> THEN protocol_sanitizers
    ELSE LET toks == protocol_tokens(Head(allow_list))
             next == IF attr_name \in DOMAIN protocol_sanitizers
                     THEN [protocol_sanitizers EXCEPT ![attr_name] = @ \o toks]
                     ELSE (attr_name :> toks) @@ protocol_sanitizers
         IN  push_protocols(next, attr_name, Tail(allow_list))

set_allowed_protocols(element_name, attr_name, allow_list) ==
    /\ Idle
    /\ LET old == element_sanitizers[element_name].protocol_sanitizers
           size == IF attr_name \in DOMAIN old THEN Len(old[attr_name]) ELSE 0
       IN  /\ size + Len(Flatten([i \in 1..Len(allow_list) |-> protocol_tokens(allow_list[i])]))
                  <= MaxVec
           /\ element_sanitizers' =
                  [element_sanitizers EXCEPT
                      ![element_name].protocol_sanitizers = push_protocols(old, attr_name, allow_list)]
    /\ UNCHANGED <<flags, allowed_attrs, allowed_classes, allow_comments, allow_doctype,
                   pass_vars, node, call>>

---------------------------------------------------------------------------
(* The element handle of the rewriting engine (lol_html::Element), as far  *)
(* as the sanitizer drives it.                                             *)

\* the handle of a start tag the engine has just parsed
NewElement(tag, attrs) == [NoElement EXCEPT !.tag = tag, !.attrs = attrs]

\* an element has an end tag iff its tag is not self-closing
can_have_content(e) == ~self_closing(e.tag)

\* Element::remove: start tag, content and end tag go
element_remove(e) ==
    [e EXCEPT !.removed = TRUE,
              !.content = IF can_have_content(e) THEN "removed" ELSE @,
              !.end_removed = can_have_content(e)]

\* Element::remove_and_keep_content: start and end tag go, the content stays
element_remove_and_keep_content(e) ==
    [e EXCEPT !.removed = TRUE, !.end_removed = can_have_content(e)]

\* Element::before / Element::after with " "
element_before(e) == [e EXCEPT !.before = @ + 1]

element_after(e) == [e EXCEPT !.after = @ + 1]

\* Element::set_inner_content
element_set_inner_content(e, text) ==
    [e EXCEPT !.content = IF text = <<>> THEN "empty" ELSE "space"]

\* Element::set_attribute
element_set_attribute(e, name, value) ==
    [e EXCEPT !.attrs = (name :> value) @@ @]

\* Element::remove_attribute
element_remove_attribute(e, name) ==
    [e EXCEPT !.attrs = [n \in (DOMAIN @) \ {name} |-> @[n]]]

---------------------------------------------------------------------------
(* The element decision engine.                                            *)

\* variant: a self-closing tag is padded on both sides like any other
remove_element_pad_both(element, tag, fl) ==
    LET wrap_whitespace == BitAnd(fl, SELMA_SANITIZER_WRAP_WHITESPACE) # 0
        remove_contents == BitAnd(fl, SELMA_SANITIZER_REMOVE_CONTENTS) # 0
    IN  IF remove_contents THEN element_remove(element)
        ELSE element_remove_and_keep_content(
                 IF wrap_whitespace THEN element_after(element_before(element))
                 ELSE element)

remove_element(element, tag, fl) ==
    LET wrap_whitespace == BitAnd(fl, SELMA_SANITIZER_WRAP_WHITESPACE) # 0
        remove_contents == BitAnd(fl, SELMA_SANITIZER_REMOVE_CONTENTS) # 0
    IN  IF remove_contents THEN element_remove(element)
        ELSE element_remove_and_keep_content(
                 IF wrap_whitespace
                 THEN IF self_closing(tag) THEN element_after(element)
                      ELSE element_after(element_before(element))
                 ELSE element)

\* variant: a handler is registered for every removed element
check_if_end_tag_needs_removal_any_tag(element) ==
    IF element.removed THEN [element EXCEPT !.end_handler = TRUE] ELSE element

check_if_end_tag_needs_removal(element) ==
    IF element.removed /\ ~self_closing(element.tag)
    THEN [element EXCEPT !.end_handler = TRUE]
    ELSE element

\* variant: the end tag is left to itself
force_remove_element_start_only(element, tag, fl) == remove_element(element, tag, fl)

force_remove_element(element, tag, fl) ==
    check_if_end_tag_needs_removal(remove_element(element, tag, fl))

\* variant: the configured flags are used for every tag
removal_flags_configured(tag, fl) == fl

\* the flags try_remove_element removes a disallowed element with
removal_flags(tag, fl) ==
    IF has_text_content(tag) THEN SELMA_SANITIZER_REMOVE_CONTENTS ELSE fl

\* variant: a kept iframe is always emptied
iframe_content_empty(fl) == <<>>

\* what try_remove_element puts in an iframe it keeps
iframe_content(fl) == IF fl # 0 THEN <<" ">> ELSE <<>>

\* the element as try_remove_element leaves it; it returns should_remove,
\* which is the handle's removed()
try_remove_element(element) ==
    LET tag == element.tag
        fl == flags[tag]
        should_remove == BitAnd(fl, SELMA_SANITIZER_ALLOW) = 0
    IN  IF should_remove
        THEN check_if_end_tag_needs_removal(
                 remove_element(element, tag, removal_flags(tag, fl)))
        ELSE IF is_iframe(tag)
             THEN element_set_inner_content(element, iframe_content(fl))
             ELSE element

\* the handler registered by on_end_tag, run at the matching end tag
remove_end_tag ==
    /\ pc = "done"
    /\ el.end_handler
    /\ ~el.end_seen
    /\ el' = [el EXCEPT !.end_seen = TRUE, !.end_removed = TRUE]
    /\ UNCHANGED <<config_vars, pc, attribute_map, todo, prev, node, call>>

---------------------------------------------------------------------------
(* The validators.  A call returns "true" or "false", or it panics.        *)

IsDelimiter(c) == c \in {":", "/", "#"}

Bool(b) == IF b THEN "true" ELSE "false"

has_allowed_protocol(protocols_allowed, attr_val) ==
    LET n == Len(attr_val)
        len == ByteLenOf(attr_val)
        \* the scan loop: entered at character i with pos = i
        Scan[i \in 0..n] ==
            IF i = n THEN n
            ELSE IF ~IsDelimiter(attr_val[i + 1]) /\ i + 1 < len THEN Scan[i + 1]
            ELSE i
        pos == Scan[0]
        \* the k whose first k characters fill exactly pos bytes
        Boundary == {k \in 0..n : ByteLenOf(SubSeq(attr_val, 1, k)) = pos}
    IN  IF pos >= n THEN "panic"                       \* chars.nth(pos).unwrap()
        ELSE IF attr_val[pos + 1] = "/" THEN Bool(Contains(protocols_allowed, <<"/">>))
        ELSE IF attr_val[pos + 1] = "#" THEN Bool(Contains(protocols_allowed, <<"#">>))
        ELSE IF Boundary = {} THEN "panic"             \* attr_val[0..pos]
        ELSE LET k == CHOOSE x \in Boundary : TRUE
                 protocol == to_lowercase(SubSeq(attr_val, 1, k))
             IN  Bool(Contains(protocols_allowed, to_lowercase(protocol)))

\* the tokens of attr_val that are in either allowed-class list
valid_classes(allowed_global, allowed_local, attr_val) ==
    SelectSeq(split_whitespace(trim_start(attr_val)),
              LAMBDA class : Contains(allowed_global, class) \/ Contains(allowed_local, class))

\* returns [ret, el]: the verdict and the element as the call leaves it
sanitize_class_attribute(element, element_sanitizer, attr_name, attr_val) ==
    LET allowed_global == allowed_classes
        allowed_local == element_sanitizer.allowed_classes
        valid == valid_classes(allowed_global, allowed_local, attr_val)
    IN  IF allowed_global = <<>> /\ allowed_local = <<>>
        THEN [ret |-> "true", el |-> element]
        ELSE IF valid = <<>>
        THEN [ret |-> "false", el |-> element]
        ELSE [ret |-> "true", el |-> element_set_attribute(element, attr_name, join(valid))]

\* variant: the list of any tag allows the attribute
is_allowed_attribute_on_any_tag(element_sanitizer, attr_name) ==
    \/ \E t \in Tags : Contains(element_sanitizers[t].allowed_attrs, attr_name)
    \/ Contains(allowed_attrs, attr_name)

\* is the attribute on the tag's list or on the global one
is_allowed_attribute(element_sanitizer, attr_name) ==
    Contains(element_sanitizer.allowed_attrs, attr_name) \/ Contains(allowed_attrs, attr_name)

\* returns [ret, el]
should_keep_attribute(element, element_sanitizer, attr_name, attr_val) ==
    IF ~is_allowed_attribute(element_sanitizer, attr_name)
    THEN [ret |-> "false", el |-> element]
    ELSE LET registered == attr_name \in DOMAIN element_sanitizer.protocol_sanitizers
             protocol == IF registered
                         THEN has_allowed_protocol(
                                  element_sanitizer.protocol_sanitizers[attr_name], attr_val)
                         ELSE "true"
         IN  IF protocol # "true" THEN [ret |-> protocol, el |-> element]
             ELSE IF attr_name = "class"
             THEN sanitize_class_attribute(element, element_sanitizer, attr_name, attr_val)
             ELSE [ret |-> "true", el |-> element]

---------------------------------------------------------------------------
(* The attribute sanitization engine: sanitize_attributes, the handler of  *)
(* an element's start tag.                                                 *)

Str_utf8 == <<"u", "t", "f", "-", "8">>

\* attribute names of the model that begin with "<!--"
starts_with_comment_open(attr_name) == attr_name \in {"<!--", "<!--x"}

\* the value a surviving attribute is given back, on a tag that is not meta
encode_survivor(attr_name, unescaped_attr_val) ==
    IF attr_name = "href" THEN escape_href(unescaped_attr_val)
    ELSE escape_html(unescaped_attr_val)

\* variant: a meta element's attributes are all left as they are
write_survivor_unpinned(element, tag, attr_name, unescaped_attr_val) ==
    IF is_meta(tag) THEN element
    ELSE element_set_attribute(element, attr_name,
                               encode_survivor(attr_name, unescaped_attr_val))

\* the else-branch of the loop body: what is written for a survivor
write_survivor(element, tag, attr_name, unescaped_attr_val) ==
    IF is_meta(tag)
    THEN IF attr_name = "charset" /\ unescaped_attr_val # Str_utf8
         THEN element_set_attribute(element, attr_name, Str_utf8)
         ELSE element
    ELSE element_set_attribute(element, attr_name,
                               encode_survivor(attr_name, unescaped_attr_val))

\* one iteration of the loop over attribute_map: [pc, el] after it
visit_attribute(element, attr_name, attr_val) ==
    LET tag == element.tag
        element_sanitizer == element_sanitizers[tag]
    IN  IF starts_with_comment_open(attr_name)
        THEN [pc |-> "done", el |-> force_remove_element(element, tag, flags[tag])]
        ELSE IF attr_val # <<>>
        THEN LET unescaped_attr_val == unescape_html(trim_start(attr_val))
                 keep == should_keep_attribute(element, element_sanitizer,
                                               attr_name, unescaped_attr_val)
             IN  IF keep.ret = "panic" THEN [pc |-> "panic", el |-> keep.el]
                 ELSE IF keep.ret = "false"
                 THEN [pc |-> "attrs", el |-> element_remove_attribute(keep.el, attr_name)]
                 ELSE [pc |-> "attrs",
                       el |-> write_survivor(keep.el, tag, attr_name, unescaped_attr_val)]
        ELSE [pc |-> "attrs", el |-> element_remove_attribute(element, attr_name)]

\* the handler starts on the element (tag, attrs)
handle_element(tag, attrs) ==
    LET element == try_remove_element(NewElement(tag, attrs))
    IN  /\ el' = element
        /\ IF element.removed
           THEN pc' = "done" /\ attribute_map' = EmptyMap /\ todo' = {}
           ELSE pc' = "attrs" /\ attribute_map' = attrs /\ todo' = DOMAIN attrs

\* the engine delivers a start tag of the document
sanitize_attributes(tag, attrs) ==
    /\ Idle
    /\ handle_element(tag, attrs)
    /\ prev' = [fed |-> FALSE, attrs |-> EmptyMap]
    /\ node' = NoNode
    /\ UNCHANGED <<config_vars, call>>

\* the loop visits the entries of the HashMap in no particular order
sanitize_attributes_visit ==
    /\ pc = "attrs"
    /\ \E attr_name \in todo :
          LET step == visit_attribute(el, attr_name, attribute_map[attr_name])
          IN  /\ el' = step.el
              /\ pc' = step.pc
              /\ todo' = todo \ {attr_name}
    /\ UNCHANGED <<config_vars, attribute_map, prev, node, call>>

\* after the loop: the required-attribute check, which returns either way
sanitize_attributes_return ==
    /\ pc = "attrs"
    /\ todo = {}
    /\ pc' = "done"
    /\ UNCHANGED <<config_vars, el, attribute_map, todo, prev, node, call>>

\* the output of a finished pass is sanitized again, with the same policy
resanitize ==
    /\ pc = "done"
    /\ ~el.removed
    /\ ~prev.fed
    /\ handle_element(el.tag, el.attrs)
    /\ prev' = [fed |-> TRUE, attrs |-> el.attrs]
    /\ UNCHANGED <<config_vars, node, call>>

\* the handle is dropped: the handler returned, or its panic unwound
end_of_element ==
    /\ pc \in {"done", "panic"}
    /\ pc' = "idle"
    /\ el' = NoElement
    /\ attribute_map' = EmptyMap
    /\ todo' = {}
    /\ prev' = [fed |-> FALSE, attrs |-> EmptyMap]
    /\ UNCHANGED <<config_vars, node, call>>

\* variant: every comment is left in the document
sanitize_comment_keep ==
    /\ Idle
    /\ node' = [kind |-> "comment", removed |-> FALSE]
    /\ UNCHANGED <<config_vars, pass_vars, call>>

sanitize_comment ==
    /\ Idle
    /\ node' = [kind |-> "comment", removed |-> ~allow_comments]
    /\ UNCHANGED <<config_vars, pass_vars, call>>

sanitize_doctype ==
    /\ Idle
    /\ node' = [kind |-> "doctype", removed |-> ~allow_doctype]
    /\ UNCHANGED <<config_vars, pass_vars, call>>

\* has_allowed_protocol called on its own, once
call_has_allowed_protocol(protocols_allowed, attr_val) ==
    /\ call = NoCall
    /\ call' = [fn |-> "has_allowed_protocol", protocols |-> protocols_allowed,
                val |-> attr_val, ret |-> has_allowed_protocol(protocols_allowed, attr_val)]
    /\ UNCHANGED <<config_vars, pass_vars, node>>

---------------------------------------------------------------------------
(* Inputs.                                                                 *)

\* every map from at most MaxAttrs of the names to the values
ElementAttrs(Names, Values) ==
    UNION {[N -> Values] : N \in {M \in SUBSET Names : Cardinality(M) <= MaxAttrs}}

\* every text made of at most MaxAtoms of the atoms
Texts(Atoms) == {Flatten(ss) : ss \in SeqsUpTo(Atoms, MaxAtoms)}

\* the empty map and every map of one name to one value
OneAttr(Names, Values) ==
    {EmptyMap} \cup {n :> v : n \in Names, v \in Values}

FlagArgs ==
    {SELMA_SANITIZER_ALLOW, SELMA_SANITIZER_REMOVE_CONTENTS,
     SELMA_SANITIZER_WRAP_WHITESPACE,
     SELMA_SANITIZER_ALLOW + SELMA_SANITIZER_REMOVE_CONTENTS}

(***************************************************************************)
(* Spec: the flag table, the element decision engine and the injection     *)
(* guard.  set_flag is called for two of the tags, set_all_flags reaches   *)
(* them all; "title" is the one attribute that is ever allowed.            *)
(***************************************************************************)

FlagTargets == {"a", "script"}

DecisionAttrs == ElementAttrs({"title", "<!--"}, {<<>>, <<"x">>})

Next ==
    \/ \E t \in FlagTargets, f \in FlagArgs, s \in BOOLEAN : set_flag(t, f, s)
    \/ \E f \in FlagArgs, s \in BOOLEAN : set_all_flags(f, s)
    \/ \E b \in BOOLEAN : set_allowed_attribute("all", "title", b)
    \/ \E t \in Tags, attrs \in DecisionAttrs : sanitize_attributes(t, attrs)
    \/ sanitize_attributes_visit
    \/ sanitize_attributes_return
    \/ remove_end_tag
    \/ end_of_element

Spec == Init /\ [][Next]_vars

(***************************************************************************)
(* Properties of the flag table and of the element decision engine.        *)
(***************************************************************************)

Has(fl, bit) == BitAnd(fl, bit) # 0

\* the handler of the element has returned
Finished == pc = "done"

\* the handler found the tag disallowed
Disallowed == Finished /\ el.tag \in Tags /\ ~Has(flags[el.tag], SELMA_SANITIZER_ALLOW)

\* the handler kept the element at first and met an attribute named "<!--..."
Injected ==
    Finished /\ \E n \in DOMAIN attribute_map : starts_with_comment_open(n)

\* C3: a disallowed tag with text content is removed with its content,
\* whatever its REMOVE_CONTENTS and WRAP_WHITESPACE bits are, and nothing is
\* inserted around it.
C3_TextContentRemoved ==
    (Disallowed /\ has_text_content(el.tag)) =>
        /\ el.removed
        /\ el.content = "removed"
        /\ el.end_removed
        /\ el.before = 0 /\ el.after = 0

\* a script removed with its content although only WRAP_WHITESPACE is set
C3_Witness ==
    /\ Disallowed
    /\ el.tag = "script"
    /\ flags["script"] = SELMA_SANITIZER_WRAP_WHITESPACE
    /\ el.content = "removed"

\* C5: once the handler of a kept element has met an attribute whose name
\* begins with "<!--", the element is removed the way the tag's flags say,
\* and for a tag that is not self-closing the end tag is removed and an
\* end-tag handler is registered; in every visiting order.
C5_InjectionRemovesElement ==
    Injected =>
        LET fl == flags[el.tag]
            pad == IF Has(fl, SELMA_SANITIZER_REMOVE_CONTENTS)
                      \/ ~Has(fl, SELMA_SANITIZER_WRAP_WHITESPACE) THEN 0 ELSE 1
        IN  /\ el.removed
            /\ Has(fl, SELMA_SANITIZER_REMOVE_CONTENTS) /\ ~self_closing(el.tag)
                   => el.content = "removed"
            /\ ~Has(fl, SELMA_SANITIZER_REMOVE_CONTENTS) => el.content # "removed"
            /\ el.after = pad
            /\ el.before = IF self_closing(el.tag) THEN 0 ELSE pad
            /\ ~self_closing(el.tag) => el.end_removed /\ el.end_handler
            /\ self_closing(el.tag) => ~el.end_handler

\* the guard fired after another attribute had been visited and kept
C5_Witness ==
    /\ Injected
    /\ el.tag = "a"
    /\ el.removed /\ el.end_handler
    /\ "title" \in DOMAIN el.attrs
    /\ todo = {}

\* C8: when set_allowed_attribute("all", a, false) returns, a is not in the
\* global allowed-attribute list.
C8_RemovedMeansAbsent ==
    [][\A a \in {"title"} :
          set_allowed_attribute("all", a, FALSE) => ~Contains(allowed_attrs', a)]_vars

\* C9: a disallowed tag without text content: with REMOVE_CONTENTS the
\* element goes with its content and nothing is inserted; without it the
\* start and end tags go, the content stays, and with WRAP_WHITESPACE one
\* space is inserted before and one after, for a self-closing tag only the
\* one after.
C9_RemoveOrUnwrap ==
    (Disallowed /\ ~has_text_content(el.tag)) =>
        LET fl == flags[el.tag]
        IN  /\ el.removed
            /\ ~self_closing(el.tag) => el.end_removed
            /\ IF Has(fl, SELMA_SANITIZER_REMOVE_CONTENTS)
               THEN /\ ~self_closing(el.tag) => el.content = "removed"
                    /\ el.before = 0 /\ el.after = 0
               ELSE /\ el.content = "kept"
                    /\ IF Has(fl, SELMA_SANITIZER_WRAP_WHITESPACE)
                       THEN /\ el.after = 1
                            /\ el.before = IF self_closing(el.tag) THEN 0 ELSE 1
                       ELSE el.before = 0 /\ el.after = 0

\* a self-closing tag unwrapped with WRAP_WHITESPACE
C9_Witness ==
    /\ Disallowed
    /\ el.tag = "meta"
    /\ flags["meta"] = SELMA_SANITIZER_WRAP_WHITESPACE
    /\ el.before = 0 /\ el.after = 1

\* an element event is being handled or has been handled
Handled == pc \in {"attrs", "done"} /\ el.tag \in Tags

\* C12: an element has an end-tag handler iff it was removed at its start
\* tag, by either path, and its tag is not self-closing; once the handler
\* has run on the end tag, the end tag is removed.
C12_EndTagHandler ==
    Handled =>
        /\ el.end_handler <=> (el.removed /\ ~self_closing(el.tag))
        /\ el.end_seen => el.end_handler /\ el.end_removed

\* the handler of a disallowed element has run on its end tag
C12_Witness ==
    /\ Disallowed
    /\ el.tag = "a"
    /\ el.end_seen /\ el.end_removed
    /\ el.content = "kept"

\* C13: an iframe that try_remove_element kept never has its original
\* content: while it stays in the document its content is a single space if
\* any flag bit of the tag is set, and empty otherwise.
C13_IframeBlanked ==
    (Handled /\ is_iframe(el.tag) /\ Has(flags[el.tag], SELMA_SANITIZER_ALLOW)) =>
        /\ el.content # "kept"
        /\ ~el.removed =>
               el.content = IF flags[el.tag] # 0 THEN "space" ELSE "empty"

\* an allowed iframe left in the document with an allowed attribute
C13_Witness ==
    /\ Finished
    /\ el.tag = "iframe"
    /\ ~el.removed
    /\ el.content = "space"
    /\ "title" \in DOMAIN el.attrs

\* C19: a removed element of a tag with text content has lost its content,
\* whichever path removed it and whatever its REMOVE_CONTENTS bit is.
C19_TextNeverUnwrapped ==
    (Finished /\ el.removed /\ has_text_content(el.tag)) => el.content = "removed"

\* the bits that are set in after and clear in before
NewBits(before, after) == BitAnd(after, BitNot(before))

\* C20: every slot starts at 0; a tag's ALLOW bit becomes set only in a
\* call with set = true whose flag holds ALLOW and that targets the tag or
\* all tags; a call with set = false sets no bit; an element is kept only
\* if the ALLOW bit of its tag is set.
C20_DenyByDefault ==
    /\ \A t \in Tags : flags[t] = 0
    /\ [][/\ \A t \in Tags :
               Has(NewBits(flags[t], flags'[t]), SELMA_SANITIZER_ALLOW) =>
                   \E f \in FlagArgs :
                       /\ Has(f, SELMA_SANITIZER_ALLOW)
                       /\ set_flag(t, f, TRUE) \/ set_all_flags(f, TRUE)
          /\ \A f \in FlagArgs :
               (set_all_flags(f, FALSE) \/ \E t \in FlagTargets : set_flag(t, f, FALSE)) =>
                   \A u \in Tags : NewBits(flags[u], flags'[u]) = 0
          /\ (Handled' /\ ~el'.removed) => Has(flags'[el'.tag], SELMA_SANITIZER_ALLOW)]_vars

\* an element of the one tag that was allowed is kept
C20_Witness ==
    /\ Finished
    /\ el.tag = "a"
    /\ ~el.removed
    /\ \A t \in Tags \ {"a"} : ~Has(flags[t], SELMA_SANITIZER_ALLOW)


(***************************************************************************)
(* SpecAttr: the attribute allow-lists, the global one and the one of tag  *)
(* "a", with every tag allowed or none.                                    *)
(***************************************************************************)

AttrTargets == {"all", "a"}

AttrNames == {"title", "href"}

AttrElements == ElementAttrs(AttrNames, {<<>>, <<"x">>})

NextAttr ==
    \/ \E s \in BOOLEAN : set_all_flags(SELMA_SANITIZER_ALLOW, s)
    \/ \E t \in AttrTargets, n \in AttrNames, b \in BOOLEAN : set_allowed_attribute(t, n, b)
    \/ \E t \in {"a", "meta"}, attrs \in AttrElements : sanitize_attributes(t, attrs)
    \/ sanitize_attributes_visit
    \/ sanitize_attributes_return
    \/ end_of_element

SpecAttr == Init /\ [][NextAttr]_vars

\* the handler returned and left the element in the document
Kept == Finished /\ ~el.removed

\* C2: every attribute left on a kept element is named in the tag's
\* allowed_attrs or in the global allowed-attribute list.
C2_AllowListSoundness ==
    Kept =>
        \A n \in DOMAIN el.attrs :
            \/ Contains(element_sanitizers[el.tag].allowed_attrs, n)
            \/ Contains(allowed_attrs, n)

\* one attribute allowed by the tag's list survived, one on no list was removed
C2_Witness ==
    /\ Kept
    /\ el.tag = "a"
    /\ DOMAIN attribute_map = {"title", "href"}
    /\ DOMAIN el.attrs = {"href"}
    /\ Contains(element_sanitizers["a"].allowed_attrs, "href")
    /\ ~Contains(allowed_attrs, "href")
    /\ attribute_map["title"] # <<>>

(***************************************************************************)
(* SpecClass: the class filter.  The class attribute is allowed globally;   *)
(* classes "a" and "b" are toggled on the global list, "b" on the list of   *)
(* tag "a"; class values are made of the words a, b, c and spaces.          *)
(***************************************************************************)

ClassNames == {<<"a">>, <<"b">>}

ClassAtoms == {<<"a">>, <<"b">>, <<"c">>, <<" ">>}

Str_a_c_b == <<"a", " ", "c", " ", "b">>

ClassValues == Texts(ClassAtoms) \cup {Str_a_c_b}

NextClass ==
    \/ set_all_flags(SELMA_SANITIZER_ALLOW, TRUE)
    \/ set_allowed_attribute("all", "class", TRUE)
    \/ \E c \in ClassNames, b \in BOOLEAN : set_allowed_class("all", c, b)
    \/ \E b \in BOOLEAN : set_allowed_class("a", <<"b">>, b)
    \/ \E t \in {"a", "meta"}, attrs \in OneAttr({"class"}, ClassValues) :
           sanitize_attributes(t, attrs)
    \/ sanitize_attributes_visit
    \/ sanitize_attributes_return
    \/ end_of_element

SpecClass == Init /\ [][NextClass]_vars

\* the handler returned, the element is kept and its class attribute survived
ClassKept ==
    /\ Kept
    /\ "class" \in DOMAIN attribute_map
    /\ "class" \in DOMAIN el.attrs

AllowedClass(tag, class) ==
    Contains(allowed_classes, class) \/ Contains(element_sanitizers[tag].allowed_classes, class)

\* C4: with a class filter configured, the class value left on a kept element
\* is the allowed words of the input joined by single spaces; with no filter
\* the words of the input are all still there.
C4_ClassIntersection ==
    ClassKept =>
        LET words == split_whitespace(attribute_map["class"])
            allowed == SelectSeq(words, LAMBDA w : AllowedClass(el.tag, w))
        IN  IF allowed_classes # <<>> \/ element_sanitizers[el.tag].allowed_classes # <<>>
            THEN el.attrs["class"] = join(allowed)
            ELSE split_whitespace(el.attrs["class"]) = words

(***************************************************************************)
(* SpecValue: the value pipeline of a kept attribute (trim, decode,         *)
(* validate, encode) and the feeding back of a pass's output.  title, href  *)
(* and charset are allowed globally; no class filter, no protocol list.     *)
(***************************************************************************)

ValueNames == {"title", "href", "charset"}

ValueAtoms ==
    {<<" ">>, <<"x">>, <<"<">>, <<"&", "a", "m", "p", ";">>,
     <<"&", "#", "3", "2", ";">>, Str_utf8}

\* "utf-8" with its first letter written as a character reference
Str_utf8_reference == <<"&", "#", "1", "1", "7", ";", "t", "f", "-", "8">>

ValueElements ==
    {[tag |-> "a", attrs |-> m] : m \in OneAttr({"title", "href"}, Texts(ValueAtoms))}
        \cup
    {[tag |-> "meta", attrs |-> m] :
        m \in OneAttr({"title", "charset"}, Texts(ValueAtoms) \cup {Str_utf8_reference})}

NextValue ==
    \/ set_all_flags(SELMA_SANITIZER_ALLOW, TRUE)
    \/ \E n \in ValueNames : set_allowed_attribute("all", n, TRUE)
    \/ \E e \in ValueElements : sanitize_attributes(e.tag, e.attrs)
    \/ sanitize_attributes_visit
    \/ sanitize_attributes_return
    \/ resanitize
    \/ end_of_element

SpecValue == Init /\ [][NextValue]_vars

\* the output of a pass went through a second pass, which returned
SecondPassKept == Kept /\ prev.fed

\* C7: sanitizing the output of a pass again, with the same policy, leaves
\* every attribute as the first pass wrote it.
C7_Idempotent == SecondPassKept => el.attrs = prev.attrs

\* a kept meta element came with a non-empty charset that is allowed
CharsetKept ==
    /\ Kept
    /\ el.tag = "meta"
    /\ "charset" \in DOMAIN attribute_map
    /\ attribute_map["charset"] # <<>>
    /\ \/ Contains(allowed_attrs, "charset")
       \/ Contains(element_sanitizers["meta"].allowed_attrs, "charset")

\* C10 as stated: the charset left on the element is the text "utf-8".
C10_CharsetIsUtf8 ==
    CharsetKept => "charset" \in DOMAIN el.attrs /\ el.attrs["charset"] = Str_utf8

\* C10, amended: the charset left on the element reads "utf-8" once its
\* leading whitespace is trimmed and its character references are decoded.
C10_CharsetDecodesToUtf8 ==
    CharsetKept =>
        /\ "charset" \in DOMAIN el.attrs
        /\ unescape_html(trim_start(el.attrs["charset"])) = Str_utf8

\* another charset was rewritten
C10_Witness ==
    /\ CharsetKept
    /\ attribute_map["charset"] = <<"x">>
    /\ el.attrs["charset"] = Str_utf8

\* what the re-encoding step is to write for attribute n of decoded value d
Reencoded(n, d) == IF n = "href" THEN escape_href(d) ELSE escape_html(d)

\* C15: every attribute left on a kept element has the value the re-encoding
\* step gives it: a meta element's charset reads as the canonical charset,
\* an href is the URL-escaped decoded input, every other attribute, on meta
\* too, is the HTML-escaped decoded input.
C15_SurvivorsReencoded ==
    Kept =>
        \A n \in DOMAIN el.attrs :
            /\ n \in DOMAIN attribute_map
            /\ LET d == unescape_html(trim_start(attribute_map[n]))
               IN  IF is_meta(el.tag) /\ n = "charset"
                   THEN unescape_html(trim_start(el.attrs[n])) = Str_utf8
                   ELSE el.attrs[n] = Reencoded(n, d)

(***************************************************************************)
(* SpecProtocol: has_allowed_protocol called on its own, on every allowed   *)
(* list and value of the bounds and on the documented examples.             *)
(***************************************************************************)

Str_http == <<"h", "t", "t", "p">>

Str_http_x == <<"h", "t", "t", "p", ":", "/", "/", "x">>

Str_javascript_alert ==
    <<"j", "a", "v", "a", "s", "c", "r", "i", "p", "t", ":",
      "a", "l", "e", "r", "t", "(", "1", ")">>

Str_relative_path ==
    <<"/", "r", "e", "l", "a", "t", "i", "v", "e", "/", "p", "a", "t", "h">>

Str_frag == <<"#", "f", "r", "a", "g">>

ProtocolTokens == {<<"h">>, Str_http, <<"/">>, <<"#">>, <<"U+00E9">>}

ProtocolAtoms == {<<"h">>, <<"H">>, <<":">>, <<"/">>, <<"#">>, <<"U+00E9">>}

ProtocolValues ==
    Texts(ProtocolAtoms)
        \cup {Str_http_x, Str_javascript_alert, Str_relative_path, Str_frag}

NextProtocol ==
    \E protocols \in SeqsUpTo(ProtocolTokens, MaxVec), val \in ProtocolValues :
        call_has_allowed_protocol(protocols, val)

SpecProtocol == Init /\ [][NextProtocol]_vars

\* has_allowed_protocol was called on a value that holds a delimiter
CalledOnDelimited ==
    /\ call.fn = "has_allowed_protocol"
    /\ \E i \in 1..Len(call.val) : IsDelimiter(call.val[i])

FirstDelimiter(val) ==
    CHOOSE i \in 1..Len(val) :
        IsDelimiter(val[i]) /\ \A k \in 1..(i - 1) : ~IsDelimiter(val[k])

\* what the first delimiter of val decides
ProtocolGate(protocols, val) ==
    LET i == FirstDelimiter(val)
    IN  IF val[i] = "/" THEN Contains(protocols, <<"/">>)
        ELSE IF val[i] = "#" THEN Contains(protocols, <<"#">>)
        ELSE Contains(protocols, to_lowercase(SubSeq(val, 1, i - 1)))

\* C6: on a value with a delimiter the result is decided by the first one:
\* "/" and "#" by their token, ":" by the lower-cased text before it.
C6_ProtocolGate ==
    CalledOnDelimited => call.ret = Bool(ProtocolGate(call.protocols, call.val))

IsAscii(val) == \A i \in 1..Len(val) : ByteLen(val[i]) = 1

\* the gate is as C6 says on every value made of ASCII characters
ProtocolGateOnAscii ==
    (CalledOnDelimited /\ IsAscii(call.val)) =>
        call.ret = Bool(ProtocolGate(call.protocols, call.val))

(***************************************************************************)
(* SpecAllFlags: the flag table driven by set_all_flags alone, so that      *)
(* every change of a slot is a step of set_all_flags.                       *)
(***************************************************************************)

NextAllFlags ==
    \/ \E f \in FlagArgs, s \in BOOLEAN : set_all_flags(f, s)
    \/ \E t \in Tags, attrs \in OneAttr({"title"}, {<<"x">>}) : sanitize_attributes(t, attrs)
    \/ sanitize_attributes_visit
    \/ sanitize_attributes_return
    \/ remove_end_tag
    \/ end_of_element

SpecAllFlags == Init /\ [][NextAllFlags]_vars

\* C1: set_all_flags(flag, false) clears the bits of flag in every slot and
\* leaves every other bit of every slot as it was.
C1_ClearsOnlyFlagBits ==
    [][\A f \in FlagArgs :
          set_all_flags(f, FALSE) =>
              \A t \in Tags : flags'[t] = BitAnd(flags[t], BitNot(f))]_vars

(***************************************************************************)
(* SpecNodes: every setter of the policy store, and comment and doctype     *)
(* events between their calls.                                              *)
(***************************************************************************)

NextNodes ==
    \/ \E b \in BOOLEAN : set_allow_comments(b)
    \/ \E b \in BOOLEAN : set_allow_doctype(b)
    \/ \E b \in BOOLEAN : set_flag("a", SELMA_SANITIZER_ALLOW, b)
    \/ \E b \in BOOLEAN : set_all_flags(SELMA_SANITIZER_REMOVE_CONTENTS, b)
    \/ \E t \in AttrTargets, b \in BOOLEAN : set_allowed_attribute(t, "title", b)
    \/ \E b \in BOOLEAN : set_allowed_class("a", <<"a">>, b)
    \/ set_allowed_protocols("a", "href", <<Relative>>)
    \/ sanitize_comment
    \/ sanitize_doctype

SpecNodes == Init /\ [][NextNodes]_vars

\* the step is the handling of a comment, of a doctype
CommentEvent == node' # node /\ node'.kind = "comment"

DoctypeEvent == node' # node /\ node'.kind = "doctype"

\* C11: a comment is removed iff allow_comments is false and a doctype iff
\* allow_doctype is false; each boolean starts false, takes the value a call
\* of its own setter gives it and is changed by no other step.
C11_Gates ==
    /\ ~allow_comments /\ ~allow_doctype
    /\ [][/\ CommentEvent => node'.removed = ~allow_comments
          /\ DoctypeEvent => node'.removed = ~allow_doctype
          /\ \A b \in BOOLEAN : set_allow_comments(b) => allow_comments' = b
          /\ \A b \in BOOLEAN : set_allow_doctype(b) => allow_doctype' = b
          /\ allow_comments' # allow_comments => \E b \in BOOLEAN : set_allow_comments(b)
          /\ allow_doctype' # allow_doctype => \E b \in BOOLEAN : set_allow_doctype(b)]_vars

\* a comment was kept while a doctype would be removed, after other setters ran
C11_Witness ==
    /\ node.kind = "comment" /\ ~node.removed
    /\ allow_comments /\ ~allow_doctype
    /\ allowed_attrs # <<>>
    /\ flags["a"] # 0

\* C16: set_allowed_attribute on a tag appends the name to the tag's
\* allowed_attrs whether allow is true or false and changes nothing else of
\* the policy; no step takes a name out of a tag's allowed_attrs.
C16_PerTagListsGrow ==
    [][/\ \A t \in Tags, b \in BOOLEAN :
             set_allowed_attribute(t, "title", b) =>
                 /\ element_sanitizers' =
                        [element_sanitizers EXCEPT
                            ![t].allowed_attrs = Append(@, "title")]
                 /\ allowed_attrs' = allowed_attrs
       /\ \A t \in Tags :
             \A i \in 1..Len(element_sanitizers[t].allowed_attrs) :
                 Contains(element_sanitizers'[t].allowed_attrs,
                          element_sanitizers[t].allowed_attrs[i])]_vars

\* the list of tag "a" grew twice while the global list is empty
C16_Witness ==
    /\ Len(element_sanitizers["a"].allowed_attrs) >= 2
    /\ allowed_attrs = <<>>
    /\ element_sanitizers["a"].allowed_classes # <<>>

(***************************************************************************)
(* SpecRegistered: protocol lists registered for href, on tag "a" from      *)
(* several lists and on iframe from one, and passes over elements whose     *)
(* href, allowed globally, has a value made of ASCII characters.            *)
(***************************************************************************)

RegisteredLists == {<< <<"h">> >>, << <<"x">> >>, <<Relative>>}

RegisteredAtoms == {<<"h">>, <<":">>, <<"/">>, <<" ">>}

RegisteredElements == OneAttr({"href"}, Texts(RegisteredAtoms))

NextRegistered ==
    \/ set_all_flags(SELMA_SANITIZER_ALLOW, TRUE)
    \/ set_allowed_attribute("all", "href", TRUE)
    \/ \E l \in RegisteredLists : set_allowed_protocols("a", "href", l)
    \/ set_allowed_protocols("iframe", "href", << <<"x">> >>)
    \/ \E t \in {"a", "iframe"}, attrs \in RegisteredElements : sanitize_attributes(t, attrs)
    \/ sanitize_attributes_visit
    \/ sanitize_attributes_return
    \/ end_of_element

SpecRegistered == Init /\ [][NextRegistered]_vars

\* the protocol list of (tag, attr), empty when there is none
ProtocolList(sanitizers, tag, attr) ==
    IF attr \in DOMAIN sanitizers[tag].protocol_sanitizers
    THEN sanitizers[tag].protocol_sanitizers[attr]
    ELSE <<>>

\* the handler returned on a kept element whose href, non-empty and allowed,
\* has no protocol list on the element's tag
Unregistered ==
    /\ Kept
    /\ "href" \in DOMAIN attribute_map
    /\ attribute_map["href"] # <<>>
    /\ is_allowed_attribute(element_sanitizers[el.tag], "href")
    /\ "href" \notin DOMAIN element_sanitizers[el.tag].protocol_sanitizers

\* C17: a call of set_allowed_protocols appends its strings, and "#" and "/"
\* for the relative marker, in order, to the list of its (tag, attr) and
\* changes no other list; no step shortens or rewrites a list; an attribute
\* without a list is kept whatever its value is.
C17_ProtocolsAccumulate ==
    [][/\ \A t \in Tags, l \in RegisteredLists :
             set_allowed_protocols(t, "href", l) =>
                 /\ ProtocolList(element_sanitizers', t, "href") =
                        ProtocolList(element_sanitizers, t, "href")
                            \o Flatten([i \in 1..Len(l) |-> protocol_tokens(l[i])])
                 /\ \A u \in Tags \ {t} : element_sanitizers'[u] = element_sanitizers[u]
                 /\ DOMAIN element_sanitizers'[t].protocol_sanitizers = {"href"}
       /\ \A t \in Tags :
             LET old == ProtocolList(element_sanitizers, t, "href")
                 now == ProtocolList(element_sanitizers', t, "href")
             IN  Len(now) >= Len(old) /\ SubSeq(now, 1, Len(old)) = old
       /\ Unregistered' => "href" \in DOMAIN el'.attrs]_vars

\* two calls built the list of tag "a" in call order, and an href that would
\* fail that list was kept on iframe, which has none
C17_Witness ==
    /\ ProtocolList(element_sanitizers, "a", "href") = << <<"x">>, <<"h">> >>
    /\ Unregistered
    /\ el.tag = "iframe"
    /\ attribute_map["href"] = <<":", "/">>
    /\ "href" \in DOMAIN el.attrs

\* C18: the protocol validator never aborts the pass.
C18_NeverFaults == pc # "panic"

(***************************************************************************)
(* SpecScheme: has_allowed_protocol called on the list that calls of        *)
(* set_allowed_protocols built for href on tag "a", with entries in lower    *)
(* and in upper case, on values made of ASCII characters.                    *)
(***************************************************************************)

SchemeLists == {<< <<"h">> >>, << <<"H">> >>, <<Str_http>>, <<Relative>>}

SchemeAtoms == {<<"h">>, <<"H">>, <<":">>, <<"/">>, <<"x">>}

SchemeValues == Texts(SchemeAtoms) \cup {Str_http_x}

NextScheme ==
    \/ \E l \in SchemeLists : set_allowed_protocols("a", "href", l)
    \/ \E val \in SchemeValues :
           /\ "href" \in DOMAIN element_sanitizers["a"].protocol_sanitizers
           /\ call_has_allowed_protocol(
                  element_sanitizers["a"].protocol_sanitizers["href"], val)

SpecScheme == Init /\ [][NextScheme]_vars

\* has_allowed_protocol was called on a value whose first delimiter is ":"
CalledOnScheme ==
    /\ CalledOnDelimited
    /\ call.val[FirstDelimiter(call.val)] = ":"

\* the text before the first delimiter of val
SchemePrefix(val) == SubSeq(val, 1, FirstDelimiter(val) - 1)

\* C14: on a value whose first delimiter is ":" the result is true iff the
\* text before it equals some entry of the list when letter case is ignored
\* on both sides.
C14_CaseInsensitive ==
    CalledOnScheme =>
        call.ret = Bool(\E i \in 1..Len(call.protocols) :
                            to_lowercase(call.protocols[i])
                                = to_lowercase(SchemePrefix(call.val)))

===========================================================================
